---- MODULE Spec2Model ----
(***************************************************************************)
(* MagiaTimeline: the frame-point IR (FPIR), its noise-removal pass, the   *)
(* interval build pass, the interval IR (IIR) and its gap-bridging pass    *)
(* (IIRPassFillFlashBlank), modelled from src/MagiaTimeline.py.            *)
(*                                                                         *)
(* A FramePoint is a record [index, timestamp, flags]; flags is a sequence *)
(* of booleans, the flag of channel c (0-based, as SubtitleType's values)  *)
(* sitting at position c + 1.  An Interval is a record                     *)
(* [begin, end, type, oid]; oid is the identity of the Python object (the  *)
(* order in which IIR.__init__ received it), which the code never reads.   *)
(***************************************************************************)
EXTENDS Integers, Sequences, FiniteSets, TLC

\* ---------------------------------------------------------------- bounds
\* Longest frame sequence ingested.
MaxFrames == 5
\* Largest maxBlank a gap-bridging pass is constructed with.
MaxBlank == 2
\* Largest minPositiveLength / minNegativeLength of a noise-removal pass.
MaxMinLength == 2
\* Steps between the timestamps of two successive frames (0: equal stamps).
Deltas == {0, 1}

\* ------------------------------------------------------------ enumeration
DIALOG == 0

BLACKSCREEN == 1

\* The model keeps the first two members of the enumeration: every pass
\* treats the channels alike and reads one channel only.
SubtitleType == {DIALOG, BLACKSCREEN}

SubtitleTypeNum == Cardinality(SubtitleType)

\* Channel values a caller may hand to a pass constructor: the enumeration,
\* one value past it, and -1 (which Python's list indexing accepts).
TypeInputs == (-1) .. SubtitleTypeNum

\* Flag lists of the right length, and all lists one shorter or longer.
FlagLists(n) == [1 .. n -> BOOLEAN]

GoodFlags == FlagLists(SubtitleTypeNum)

AnyFlags == FlagLists(SubtitleTypeNum - 1) \cup GoodFlags \cup FlagLists(SubtitleTypeNum + 1)

\* Of these, the lists in which only the first flag may be set.
FirstFlagOnly == {flags \in AnyFlags : \A i \in 2 .. Len(flags) : ~flags[i]}

\* Python's list[k] on a list of n elements: the 0-based element read, or -1
\* when the read raises IndexError.
PyIndex(n, k) ==
    IF k >= 0 /\ k < n THEN k
    ELSE IF k < 0 /\ k >= -n THEN n + k
    ELSE -1

\* ------------------------------------------------------------- FramePoint
FramePoint(index, timestamp, flags) ==
    [index |-> index, timestamp |-> timestamp, flags |-> flags]

\* The check of FramePoint.__init__: TRUE when construction raises.
FramePointRaises(flags) == Len(flags) # SubtitleTypeNum

\* framePoint.flags[type] for a type of the enumeration.
Flag(framePoint, type) == framePoint.flags[type + 1]

SetFlag(fps, id, type, v) ==
    [fps EXCEPT ![id + 1].flags[type + 1] = v]

\* ------------------------------------------------------------------ FPIR
\* A virtual end one millisecond past the last real frame.
GenVirtualEndLater(fps) ==
    FramePoint(Len(fps), fps[Len(fps)].timestamp + 1,
               [i \in 1 .. SubtitleTypeNum |-> FALSE])

GenVirtualEnd(fps) ==
    FramePoint(Len(fps), fps[Len(fps)].timestamp,
               [i \in 1 .. SubtitleTypeNum |-> FALSE])

GetFramePointsWithVirtualEnd(fps) == fps \o <<GenVirtualEnd(fps)>>

\* ---------------------------------------------------- FPIRPassRemoveNoise
\* The two lengths taken the wrong way round.
MinLengthSwapped(v, minPositiveLength, minNegativeLength) ==
    IF v THEN minNegativeLength ELSE minPositiveLength

MinLengthOf(v, minPositiveLength, minNegativeLength) ==
    IF v THEN minPositiveLength ELSE minNegativeLength

\* A backward count that does not stop at the first differing flag.
RECURSIVE CountBackwardAll(_, _, _, _, _)
CountBackwardAll(fps, type, i, l, v) ==
    IF i < l THEN 0
    ELSE (IF Flag(fps[i + 1], type) # v THEN 0 ELSE 1)
         + CountBackwardAll(fps, type, i - 1, l, v)

\* for i in range(id - 1, l - 1, -1): count until the first differing flag.
RECURSIVE CountBackward(_, _, _, _, _)
CountBackward(fps, type, i, l, v) ==
    IF i < l THEN 0
    ELSE IF Flag(fps[i + 1], type) # v THEN 0
    ELSE 1 + CountBackward(fps, type, i - 1, l, v)

\* for i in range(id + 1, r + 1): count until the first differing flag.
RECURSIVE CountForward(_, _, _, _, _)
CountForward(fps, type, i, r, v) ==
    IF i > r THEN 0
    ELSE IF Flag(fps[i + 1], type) # v THEN 0
    ELSE 1 + CountForward(fps, type, i + 1, r, v)

\* The body of the loop for frame id: TRUE when the frame is flipped.
NoiseFlips(fps, id, type, minPositiveLength, minNegativeLength) ==
    LET v == Flag(fps[id + 1], type)
        minLength == MinLengthOf(v, minPositiveLength, minNegativeLength)
        l == id - minLength
        r == id + minLength
    IN  IF l < 0 \/ r > Len(fps) - 1 THEN FALSE
        ELSE CountBackward(fps, type, id - 1, l, v)
             + CountForward(fps, type, id + 1, r, v) < minLength

\* The scan from frame id on; flips collects [id, v] for every flipped
\* frame, v being its flag when it was visited.
RECURSIVE RemoveNoiseScan(_, _, _, _, _, _)
RemoveNoiseScan(fps, id, type, minPositiveLength, minNegativeLength, flips) ==
    IF id > Len(fps) - 1 THEN [framePoints |-> fps, flips |-> flips]
    ELSE LET v == Flag(fps[id + 1], type) IN
         IF NoiseFlips(fps, id, type, minPositiveLength, minNegativeLength)
         THEN RemoveNoiseScan(SetFlag(fps, id, type, ~v), id + 1, type,
                              minPositiveLength, minNegativeLength,
                              flips \cup {[id |-> id, v |-> v]})
         ELSE RemoveNoiseScan(fps, id + 1, type,
                              minPositiveLength, minNegativeLength, flips)

RemoveNoiseApply(fps, type, minPositiveLength, minNegativeLength) ==
    RemoveNoiseScan(fps, 0, type, minPositiveLength, minNegativeLength, {})

\* ---------------------------------------------------------------- Interval
Interval(begin, end, type) == [begin |-> begin, end |-> end, type |-> type]

Dist(self, other) ==
    IF self.begin > other.begin THEN self.begin - other.end
    ELSE other.begin - self.end

Intersects(self, other) == Dist(self, other) < 0

\* ------------------------------------------------- FPIRPassBuildIntervals
\* A scan that ends an interval at the run's last true frame.
RECURSIVE BuildScanEndAtLastTrue(_, _, _, _, _, _)
BuildScanEndAtLastTrue(pts, k, type, state, lastBegin, acc) ==
    IF k > Len(pts) THEN acc
    ELSE IF ~state
         THEN IF Flag(pts[k], type)
              THEN BuildScanEndAtLastTrue(pts, k + 1, type, TRUE, pts[k].timestamp, acc)
              ELSE BuildScanEndAtLastTrue(pts, k + 1, type, state, lastBegin, acc)
         ELSE IF ~Flag(pts[k], type)
              THEN BuildScanEndAtLastTrue(pts, k + 1, type, FALSE, lastBegin,
                       Append(acc, Interval(lastBegin, pts[k - 1].timestamp, type)))
              ELSE BuildScanEndAtLastTrue(pts, k + 1, type, state, lastBegin, acc)

\* The loop of apply over the frame points and the virtual end, from the
\* k-th on.
RECURSIVE BuildScan(_, _, _, _, _, _)
BuildScan(pts, k, type, state, lastBegin, acc) ==
    IF k > Len(pts) THEN acc
    ELSE IF ~state
         THEN IF Flag(pts[k], type)
              THEN BuildScan(pts, k + 1, type, TRUE, pts[k].timestamp, acc)
              ELSE BuildScan(pts, k + 1, type, state, lastBegin, acc)
         ELSE IF ~Flag(pts[k], type)
              THEN BuildScan(pts, k + 1, type, FALSE, lastBegin,
                             Append(acc, Interval(lastBegin, pts[k].timestamp, type)))
              ELSE BuildScan(pts, k + 1, type, state, lastBegin, acc)

BuildIntervalsApply(fps, type) ==
    BuildScan(GetFramePointsWithVirtualEnd(fps), 1, type, FALSE, 0, <<>>)

\* -------------------------------------------------------------------- IIR
\* An insertion that puts x before the elements of equal begin.
RECURSIVE InsertBeforeEqual(_, _)
InsertBeforeEqual(sorted, x) ==
    IF sorted = <<>> THEN <<x>>
    ELSE IF Head(sorted).begin < x.begin
         THEN <<Head(sorted)>> \o InsertBeforeEqual(Tail(sorted), x)
         ELSE <<x>> \o sorted

\* list.sort(key=begin): a stable sort, here by insertion from the left.
RECURSIVE InsertByBegin(_, _)
InsertByBegin(sorted, x) ==
    IF sorted = <<>> THEN <<x>>
    ELSE IF Head(sorted).begin <= x.begin
         THEN <<Head(sorted)>> \o InsertByBegin(Tail(sorted), x)
         ELSE <<x>> \o sorted

RECURSIVE SortByBegin(_)
SortByBegin(seq) ==
    IF seq = <<>> THEN <<>>
    ELSE InsertByBegin(SortByBegin(SubSeq(seq, 1, Len(seq) - 1)), seq[Len(seq)])

\* self.intervals.extend(...) for every type of the enumeration, in order.
RECURSIVE ExtendAll(_, _)
ExtendAll(fps, type) ==
    IF type > SubtitleTypeNum - 1 THEN <<>>
    ELSE BuildIntervalsApply(fps, type) \o ExtendAll(fps, type + 1)

\* The objects of the list, each with its identity.
WithIdentity(seq) ==
    [i \in 1 .. Len(seq) |->
        [begin |-> seq[i].begin, end |-> seq[i].end, type |-> seq[i].type, oid |-> i]]

IIRExtended(fps) == WithIdentity(ExtendAll(fps, 0))

\* -------------------------------------------------- IIRPassFillFlashBlank
\* The while loop without its test of the other interval's channel.
RECURSIVE FindOtherAnyChannel(_, _, _, _, _)
FindOtherAnyChannel(ivs, id, otherId, type, maxBlank) ==
    IF otherId > Len(ivs) THEN 0
    ELSE IF Dist(ivs[id], ivs[otherId]) > maxBlank THEN 0
    ELSE IF Dist(ivs[id], ivs[otherId]) <= 0
         THEN FindOtherAnyChannel(ivs, id, otherId + 1, type, maxBlank)
    ELSE otherId

\* The while loop from otherId on: the position of the interval bridged
\* with position id, or 0 when the loop ends without bridging.
RECURSIVE FindOther(_, _, _, _, _)
FindOther(ivs, id, otherId, type, maxBlank) ==
    IF otherId > Len(ivs) THEN 0
    ELSE IF ivs[otherId].type # type
         THEN FindOther(ivs, id, otherId + 1, type, maxBlank)
    ELSE IF Dist(ivs[id], ivs[otherId]) > maxBlank THEN 0
    ELSE IF Dist(ivs[id], ivs[otherId]) <= 0
         THEN FindOther(ivs, id, otherId + 1, type, maxBlank)
    ELSE otherId

\* The middle rounded up, and the sum left undivided.
MidCeil(interval, otherInterval) == (interval.end + otherInterval.begin + 1) \div 2

MidUnhalved(interval, otherInterval) == interval.end + otherInterval.begin

Mid(interval, otherInterval) == (interval.end + otherInterval.begin) \div 2

\* The for loop from position id on.  trace collects the list after every
\* assignment; its last element is the list handed to iir.sort().
RECURSIVE FillSweep(_, _, _, _, _)
FillSweep(ivs, id, type, maxBlank, trace) ==
    IF id > Len(ivs) THEN trace
    ELSE IF ivs[id].type # type
         THEN FillSweep(ivs, id + 1, type, maxBlank, trace)
    ELSE LET o == FindOther(ivs, id, id + 1, type, maxBlank) IN
         IF o = 0 THEN FillSweep(ivs, id + 1, type, maxBlank, trace)
         ELSE LET mid == Mid(ivs[id], ivs[o])
                  s1 == [ivs EXCEPT ![id].end = mid]
                  s2 == [s1 EXCEPT ![o].begin = mid]
              IN  FillSweep(s2, id + 1, type, maxBlank, trace \o <<s1, s2>>)

FillFlashBlankTrace(ivs, type, maxBlank) ==
    FillSweep(ivs, 1, type, maxBlank, <<ivs>>)

\* ------------------------------------------------------------------ state
VARIABLES
    framePoints,  \* fpir.framePoints
    intervals,    \* iir.intervals
    phase,        \* "fpir": frames and FPIR passes; "iir": IIR built; "error": raised
    err,          \* the exception that ended the run, or "none"
    noise,        \* the last FPIRPassRemoveNoise applied and what it flipped
    scanned,      \* fpir.framePoints as the last FPIRPassRemoveNoise received them
    fill,         \* the last IIRPassFillFlashBlank applied
    applied,      \* per channel, gap-bridging passes since the IIR was built (2: two or more)
    sweep         \* the lists the last IIR mutation went through, first to last

vars == <<framePoints, intervals, phase, err, noise, scanned, fill, applied, sweep>>

NoNoise ==
    [ran |-> FALSE, again |-> FALSE, type |-> 0,
     minPositiveLength |-> 0, minNegativeLength |-> 0, flips |-> {}]

NoFill == [ran |-> FALSE, type |-> 0, maxBlank |-> 0]

Init ==
    /\ framePoints = <<>>
    /\ intervals = <<>>
    /\ phase = "fpir"
    /\ err = "none"
    /\ noise = NoNoise
    /\ scanned = <<>>
    /\ fill = NoFill
    /\ applied = [c \in SubtitleType |-> 0]
    /\ sweep = <<>>

Raise(e) ==
    /\ phase' = "error"
    /\ err' = e

\* The position of the next frame: the video starts at 0 ms, and every later
\* frame is d ms after the one before it.
NextTimestamp(d) ==
    IF framePoints = <<>> THEN 0 ELSE framePoints[Len(framePoints)].timestamp + d

\* main's frame loop: one FramePoint constructed and appended.
AppendFramePoint(deltas, flagInputs) ==
    /\ phase = "fpir"
    /\ ~noise.ran
    /\ Len(framePoints) < MaxFrames
    /\ \E d \in deltas, flags \in flagInputs :
          IF FramePointRaises(flags)
          THEN /\ Raise("Exception")
               /\ UNCHANGED <<framePoints, intervals, noise, scanned, fill, applied, sweep>>
          ELSE /\ framePoints' = Append(framePoints,
                      FramePoint(Len(framePoints), NextTimestamp(d), flags))
               /\ UNCHANGED <<intervals, phase, err, noise, scanned, fill, applied, sweep>>

\* fpir.accept(FPIRPassRemoveNoise(type, minPositiveLength, minNegativeLength))
RemoveNoise(types) ==
    /\ phase = "fpir"
    /\ scanned' = framePoints
    /\ \E type \in types, p \in 0 .. MaxMinLength, n \in 0 .. MaxMinLength :
          LET eff == PyIndex(SubtitleTypeNum, type)
              res == RemoveNoiseApply(framePoints, eff, p, n)
              rec == [ran |-> TRUE,
                      again |-> /\ noise.ran
                                /\ noise.type = type
                                /\ noise.minPositiveLength = p
                                /\ noise.minNegativeLength = n,
                      type |-> type,
                      minPositiveLength |-> p, minNegativeLength |-> n,
                      flips |-> {}]
          IN  IF framePoints # <<>> /\ eff = -1
              THEN /\ Raise("IndexError")
                   /\ noise' = rec
                   /\ UNCHANGED <<framePoints, intervals, fill, applied, sweep>>
              ELSE IF framePoints = <<>>
              THEN /\ noise' = rec
                   /\ UNCHANGED <<framePoints, intervals, phase, err, fill, applied, sweep>>
              ELSE /\ framePoints' = res.framePoints
                   /\ noise' = [rec EXCEPT !.flips = res.flips]
                   /\ UNCHANGED <<intervals, phase, err, fill, applied, sweep>>

\* iir = IIR(fpir)
BuildIIR ==
    /\ phase = "fpir"
    /\ IF PyIndex(Len(framePoints), -1) = -1
       THEN /\ Raise("IndexError")
            /\ UNCHANGED <<framePoints, intervals, noise, scanned, fill, applied, sweep>>
       ELSE /\ intervals' = SortByBegin(IIRExtended(framePoints))
            /\ sweep' = <<IIRExtended(framePoints)>>
            /\ phase' = "iir"
            /\ UNCHANGED <<framePoints, err, noise, scanned, fill, applied>>

\* iir.accept(IIRPassFillFlashBlank(type, maxBlank)).  main reads fpir for the
\* last time in IIR(fpir); the model stops tracking framePoints (and what the
\* last noise-removal pass received) once a pass over the IIR has run.
FillFlashBlank(types) ==
    /\ phase = "iir"
    /\ \E type \in types, maxBlank \in 0 .. MaxBlank :
          LET trace == FillFlashBlankTrace(intervals, type, maxBlank) IN
          /\ intervals' = SortByBegin(trace[Len(trace)])
          /\ sweep' = trace
          /\ fill' = [ran |-> TRUE, type |-> type, maxBlank |-> maxBlank]
          /\ applied' = IF type \in SubtitleType
                        THEN [applied EXCEPT ![type] = IF @ < 2 THEN @ + 1 ELSE 2]
                        ELSE applied
          /\ framePoints' = <<>>
          /\ scanned' = <<>>
          /\ UNCHANGED <<phase, err, noise>>

\* The pipeline of main: frames, then the IIR, then gap-bridging passes.
Next ==
    \/ AppendFramePoint(Deltas, GoodFlags)
    \/ BuildIIR
    \/ FillFlashBlank(SubtitleType)

Spec == Init /\ [][Next]_vars

\* The FPIR stage alone: frames one timestamp step apart (the pass reads no
\* timestamp), then noise-removal passes.
NextNoise ==
    \/ AppendFramePoint({1}, GoodFlags)
    \/ RemoveNoise(SubtitleType)

SpecNoise == Init /\ [][NextNoise]_vars

\* Every constructor called with whatever a caller may pass: flag lists of
\* any length, channel values in and out of the enumeration.
NextConfig ==
    \/ AppendFramePoint({1}, FirstFlagOnly)
    \/ RemoveNoise(TypeInputs)
    \/ BuildIIR
    \/ FillFlashBlank(TypeInputs)

SpecConfig == Init /\ [][NextConfig]_vars

\* ---------------------------------------------------------------- claims
\* What the claims read of a list of intervals.
Positions(ivs) == 1 .. Len(ivs)

Oids(ivs) == {ivs[k].oid : k \in Positions(ivs)}

\* The interval of identity o in ivs, and its position.
PosOf(ivs, o) == CHOOSE k \in Positions(ivs) : ivs[k].oid = o

ByOid(ivs, o) == ivs[PosOf(ivs, o)]

\* The list before the last pass over the IIR, and the list its sort received.
Pre == sweep[1]

Unsorted == sweep[Len(sweep)]

Built == phase = "iir" /\ ~fill.ran

Bridged == phase = "iir" /\ fill.ran

LastFrame == framePoints[Len(framePoints)]

\* C5: when a channel's flag is true at the final real frame, the last
\* interval built for that channel ends at that frame's timestamp, and no
\* built interval ends later than that timestamp.
C5_MonotonicClosure ==
    Built =>
        /\ \A k \in Positions(intervals) : intervals[k].end <= LastFrame.timestamp
        /\ \A c \in SubtitleType :
              Flag(LastFrame, c) =>
                  \E k \in Positions(intervals) :
                      /\ intervals[k].type = c
                      /\ intervals[k].end = LastFrame.timestamp
                      /\ \A j \in Positions(intervals) :
                            intervals[j].type = c => intervals[j].oid <= intervals[k].oid

\* A channel still open at the final frame of a sequence of several frames,
\* whose run began before that frame.
C5_Witness ==
    /\ Built
    /\ Len(framePoints) >= 3
    /\ \E c \in SubtitleType :
          /\ Flag(LastFrame, c)
          /\ Flag(framePoints[Len(framePoints) - 1], c)
          /\ framePoints[Len(framePoints) - 1].timestamp < LastFrame.timestamp

\* C6: after construction and after every gap-bridging pass, iir.intervals
\* holds the objects its sort received, by non-decreasing begin, and
\* intervals of equal begin are in the order they had before the sort; on
\* construction that order is channel enumeration, then extraction.
C6_SortedStable ==
    phase = "iir" =>
        /\ Len(intervals) = Len(Unsorted)
        /\ Oids(intervals) = Oids(Unsorted)
        /\ \A i, j \in Positions(intervals) :
              i < j =>
                  /\ intervals[i].begin <= intervals[j].begin
                  /\ intervals[i].begin = intervals[j].begin =>
                        PosOf(Unsorted, intervals[i].oid) < PosOf(Unsorted, intervals[j].oid)
        /\ Built =>
              \A i, j \in Positions(Unsorted) :
                  i < j =>
                      \/ Unsorted[i].type < Unsorted[j].type
                      \/ /\ Unsorted[i].type = Unsorted[j].type
                         /\ Unsorted[i].begin <= Unsorted[j].begin

\* A pass whose sweep left the list out of order, sorted again with two
\* intervals of equal begin in it.
C6_Witness ==
    /\ Bridged
    /\ \E i, j \in Positions(Unsorted) : i < j /\ Unsorted[i].begin > Unsorted[j].begin
    /\ \E i, j \in Positions(intervals) : i < j /\ intervals[i].begin = intervals[j].begin

\* C7: begin <= end for every interval, after construction, after every
\* assignment of a sweep and after every pass.
C7_BeginBeforeEnd ==
    /\ \A k \in Positions(intervals) : intervals[k].begin <= intervals[k].end
    /\ \A s \in 1 .. Len(sweep) :
          \A k \in Positions(sweep[s]) : sweep[s][k].begin <= sweep[s][k].end

\* A second pass over a channel that bridged two pairs in one sweep.
C7_Witness ==
    /\ Bridged
    /\ applied[fill.type] = 2
    /\ Len(sweep) >= 5

\* Two different intervals of one channel, in either order.
SameChannelPairs(ivs) ==
    {pr \in Positions(ivs) \X Positions(ivs) :
        pr[1] # pr[2] /\ ivs[pr[1]].type = ivs[pr[2]].type}

\* C1: after construction and one gap-bridging pass per channel, no two
\* distinct intervals of the same channel have dist < 0.
C1_NoOverlapAfterBridging ==
    (phase = "iir" /\ \A c \in SubtitleType : applied[c] = 1) =>
        \A pr \in SameChannelPairs(intervals) :
            ~Intersects(intervals[pr[1]], intervals[pr[2]])

\* The pairs of channel-c intervals of Pre, by identity, A beginning no later
\* than B.
ChannelPairs(c) ==
    {pr \in Oids(Pre) \X Oids(Pre) :
        /\ pr[1] # pr[2]
        /\ ByOid(Pre, pr[1]).type = c
        /\ ByOid(Pre, pr[2]).type = c
        /\ ByOid(Pre, pr[1]).begin <= ByOid(Pre, pr[2]).begin}

\* Both endpoints of the gap between A and B sit at the floor of its middle.
MeetAtMid(a, b) ==
    LET m == (ByOid(Pre, a).end + ByOid(Pre, b).begin) \div 2
    IN  ByOid(intervals, a).end = m /\ ByOid(intervals, b).begin = m

InGap(a, b) ==
    /\ 0 < Dist(ByOid(Pre, a), ByOid(Pre, b))
    /\ Dist(ByOid(Pre, a), ByOid(Pre, b)) <= fill.maxBlank

\* C2 as stated: every pair A, B of the pass's channel with
\* 0 < dist(A, B) <= maxBlank before the pass has A.end and B.begin at
\* floor((A.end + B.begin) / 2) after it.
C2_EveryPairMeetsAtMid ==
    Bridged =>
        \A pr \in ChannelPairs(fill.type) :
            InGap(pr[1], pr[2]) => MeetAtMid(pr[1], pr[2])

\* No interval of the channel begins between A and B.
Adjacent(c, a, b) ==
    \A x \in Oids(Pre) :
        (x # a /\ x # b /\ ByOid(Pre, x).type = c) =>
            \/ ByOid(Pre, x).begin <= ByOid(Pre, a).begin
            \/ ByOid(Pre, x).begin >= ByOid(Pre, b).begin

\* Before the pass every two intervals of the channel are apart: dist > 0.
PairwiseApart(c) ==
    \A pr \in SameChannelPairs(Pre) :
        Pre[pr[1]].type = c => Dist(Pre[pr[1]], Pre[pr[2]]) > 0

\* C2 as amended: when before the pass every two intervals of the pass's
\* channel have dist > 0, every pair A, B of that channel that is adjacent in
\* begin order and has 0 < dist(A, B) <= maxBlank ends with A.end and B.begin
\* at floor((A.end + B.begin) / 2).
C2_AdjacentPairsMeetAtMid ==
    (Bridged /\ PairwiseApart(fill.type)) =>
        \A pr \in ChannelPairs(fill.type) :
            (InGap(pr[1], pr[2]) /\ Adjacent(fill.type, pr[1], pr[2])) =>
                MeetAtMid(pr[1], pr[2])

\* A pass over a channel of three intervals, pairwise apart, that bridged an
\* adjacent pair with a gap of odd width.
C2_Witness ==
    /\ Bridged
    /\ PairwiseApart(fill.type)
    /\ Cardinality({o \in Oids(Pre) : ByOid(Pre, o).type = fill.type}) >= 3
    /\ \E pr \in ChannelPairs(fill.type) :
          /\ InGap(pr[1], pr[2])
          /\ Adjacent(fill.type, pr[1], pr[2])
          /\ (ByOid(Pre, pr[1]).end + ByOid(Pre, pr[2]).begin) % 2 = 1
          /\ ByOid(intervals, pr[2]).begin < ByOid(Pre, pr[2]).begin

SameInterval(o) == ByOid(intervals, o) = ByOid(Pre, o)

\* The part of C8 about the objects: none added, none removed, no channel
\* changed, and nothing changed in a channel other than the pass's.
FrameKept ==
    /\ Len(intervals) = Len(Pre)
    /\ Oids(intervals) = Oids(Pre)
    /\ \A o \in Oids(Pre) :
          /\ ByOid(intervals, o).type = ByOid(Pre, o).type
          /\ ByOid(Pre, o).type # fill.type => SameInterval(o)

\* C8 as stated: a pass adds and removes no interval, changes no channel,
\* changes nothing in another channel, and leaves both intervals of every
\* pair of its channel whose dist exceeds maxBlank unchanged.
C8_FarPairsUnchanged ==
    Bridged =>
        /\ FrameKept
        /\ \A pr \in ChannelPairs(fill.type) :
              Dist(ByOid(Pre, pr[1]), ByOid(Pre, pr[2])) > fill.maxBlank =>
                  SameInterval(pr[1]) /\ SameInterval(pr[2])

\* Every other interval of the channel is farther than maxBlank from o.
Isolated(c, o) ==
    \A x \in Oids(Pre) :
        (x # o /\ ByOid(Pre, x).type = c) =>
            /\ Dist(ByOid(Pre, o), ByOid(Pre, x)) > fill.maxBlank
            /\ Dist(ByOid(Pre, x), ByOid(Pre, o)) > fill.maxBlank

\* C8 as amended: a pass adds and removes no interval, changes no channel,
\* changes nothing in another channel, and leaves unchanged every interval of
\* its channel whose dist to every other interval of that channel exceeds
\* maxBlank (so a channel holding only a pair farther apart than maxBlank).
C8_FrameAndIsolatedUnchanged ==
    Bridged =>
        /\ FrameKept
        /\ \A o \in Oids(Pre) :
              (ByOid(Pre, o).type = fill.type /\ Isolated(fill.type, o)) =>
                  SameInterval(o)

\* A pass with maxBlank >= 1 over a list holding another channel's interval
\* and two intervals of its own channel farther apart than maxBlank.
C8_Witness ==
    /\ Bridged
    /\ fill.maxBlank >= 1
    /\ \E o \in Oids(Pre) : ByOid(Pre, o).type # fill.type
    /\ \E o \in Oids(Pre) :
          /\ ByOid(Pre, o).type = fill.type
          /\ Isolated(fill.type, o)
          /\ \E x \in Oids(Pre) : x # o /\ ByOid(Pre, x).type = fill.type

\* C9: interval extraction on an FPIR of zero FramePoints ends in an explicit
\* precondition error, not in the IndexError of reading the last element of
\* an empty list, and yields no intervals.
C9_EmptyInputExplicitError ==
    (phase = "error" /\ framePoints = <<>> /\ ~noise.ran) =>
        /\ err # "IndexError"
        /\ intervals = <<>>

\* C10: a FramePoint of the wrong flags length is never stored, and no pass
\* is applied with a channel value outside the enumeration.
C10_ConfigErrorsAtConstruction ==
    /\ \A k \in 1 .. Len(framePoints) : Len(framePoints[k].flags) = SubtitleTypeNum
    /\ noise.ran => noise.type \in SubtitleType
    /\ fill.ran => fill.type \in SubtitleType

\* C3: applying the same noise-removal pass again, right after it was
\* applied, flips no flag.
C3_RemoveNoiseIdempotent ==
    noise.again => noise.flips = {}

\* C4: a frame at index i is never flipped when i < minLength or
\* i > N - 1 - minLength, minLength being minPositiveLength when the frame's
\* flag was true as it was visited and minNegativeLength otherwise.
C4_BoundaryExemption ==
    \A e \in noise.flips :
        LET minLength == IF e.v THEN noise.minPositiveLength
                         ELSE noise.minNegativeLength
        IN  /\ e.id >= minLength
            /\ e.id <= Len(framePoints) - 1 - minLength

\* A pass that flipped the first frame past the exempt head and the last
\* frame before the exempt tail, with different lengths for true and false.
C4_Witness ==
    /\ noise.minPositiveLength # noise.minNegativeLength
    /\ \E e \in noise.flips :
          e.id = (IF e.v THEN noise.minPositiveLength ELSE noise.minNegativeLength)
    /\ \E e \in noise.flips :
          e.id = Len(framePoints) - 1
                 - (IF e.v THEN noise.minPositiveLength ELSE noise.minNegativeLength)

\* The flags of channel type, frame by frame.
Column(fps, type) == [k \in 1 .. Len(fps) |-> Flag(fps[k], type)]

\* How many consecutive flags equal v lie next to position id of flags s,
\* going in direction dir (-1 back, 1 forward), counting at most m of them.
RunBeside(s, id, dir, v, m) ==
    CHOOSE k \in 0 .. m :
        /\ \A j \in 1 .. k : s[id + dir * j] = v
        /\ k < m => s[id + dir * (k + 1)] # v

\* The reference scan of C11 over the flags s of one channel (position i + 1
\* holding frame i): after[i] is the list once frames 0 .. i - 1 are visited.
ReferenceScan(s, minPositiveLength, minNegativeLength) ==
    LET N == Len(s)
        after[i \in 0 .. N] ==
            IF i = 0 THEN s
            ELSE LET cur == after[i - 1]
                     id == i - 1
                     v == cur[id + 1]
                     minLength == IF v THEN minPositiveLength ELSE minNegativeLength
                 IN  IF /\ minLength <= id
                        /\ id <= N - 1 - minLength
                        /\ RunBeside(cur, id + 1, -1, v, minLength)
                           + RunBeside(cur, id + 1, 1, v, minLength) < minLength
                     THEN [cur EXCEPT ![id + 1] = ~v]
                     ELSE cur
    IN  after[N]

\* A noise-removal pass over a channel of the enumeration has just run on a
\* non-empty FPIR.
Scanned == noise.ran /\ phase = "fpir" /\ scanned # <<>>

\* C11: FPIRPassRemoveNoise.apply leaves the channel's flags as the reference
\* left-to-right in-place scan leaves them; a frame whose flag selects a
\* minLength of 0 is never flipped; index, timestamp and the other channels'
\* flags do not change; and [T,F,T,T,F] with both lengths 1 yields
\* [T,T,T,T,F].
C11_EqualsReferenceScan ==
    Scanned =>
        /\ Len(framePoints) = Len(scanned)
        /\ Column(framePoints, noise.type)
              = ReferenceScan(Column(scanned, noise.type),
                              noise.minPositiveLength, noise.minNegativeLength)
        /\ \A k \in 1 .. Len(scanned) :
              /\ framePoints[k].index = scanned[k].index
              /\ framePoints[k].timestamp = scanned[k].timestamp
              /\ \A c \in SubtitleType \ {noise.type} :
                    Flag(framePoints[k], c) = Flag(scanned[k], c)
              /\ (IF Flag(scanned[k], noise.type) THEN noise.minPositiveLength
                  ELSE noise.minNegativeLength) = 0
                 => Flag(framePoints[k], noise.type) = Flag(scanned[k], noise.type)
        /\ ( /\ Column(scanned, noise.type) = <<TRUE, FALSE, TRUE, TRUE, FALSE>>
             /\ noise.minPositiveLength = 1
             /\ noise.minNegativeLength = 1 )
           => Column(framePoints, noise.type) = <<TRUE, TRUE, TRUE, TRUE, FALSE>>

\* The pass of Scenario 1, [T,F,T,T,F] with both lengths 1, has run and
\* flipped a frame while the other channel has a flag set.
C11_Witness ==
    /\ Scanned
    /\ Column(scanned, noise.type) = <<TRUE, FALSE, TRUE, TRUE, FALSE>>
    /\ noise.minPositiveLength = 1
    /\ noise.minNegativeLength = 1
    /\ noise.flips # {}
    /\ \E k \in 1 .. Len(scanned), c \in SubtitleType \ {noise.type} :
          Flag(scanned[k], c)

\* The maximal runs of consecutive frames with the flag of channel c set, as
\* pairs <<first, last>> of positions in fps.
Runs(fps, c) ==
    {run \in (1 .. Len(fps)) \X (1 .. Len(fps)) :
        /\ run[1] <= run[2]
        /\ \A k \in run[1] .. run[2] : Flag(fps[k], c)
        /\ run[1] = 1 \/ ~Flag(fps[run[1] - 1], c)
        /\ run[2] = Len(fps) \/ ~Flag(fps[run[2] + 1], c)}

\* Where the interval of a run ends: at the first false frame after it, or at
\* the last real frame when the run reaches the end of the sequence.
RunEnd(fps, run) ==
    IF run[2] < Len(fps) THEN fps[run[2] + 1].timestamp
    ELSE fps[Len(fps)].timestamp

\* The intervals of channel c in list, in the order of list.
OfChannel(list, c) == SelectSeq(list, LAMBDA iv : iv.type = c)

\* list holds, for channel c, one interval per run of fps, in run order.
MatchesRuns(fps, list, c) ==
    LET ret == OfChannel(list, c)
        runs == Runs(fps, c)
    IN  /\ Len(ret) = Cardinality(runs)
        /\ \A run \in runs :
              LET k == Cardinality({r \in runs : r[1] <= run[1]})
              IN  /\ ret[k].begin = fps[run[1]].timestamp
                  /\ ret[k].end = RunEnd(fps, run)
                  /\ ret[k].type = c

\* C12: on a non-empty FPIR, FPIRPassBuildIntervals.apply for channel c
\* returns exactly one interval per maximal run of frames with flags[c] true,
\* in run order, from the timestamp of the run's first frame to that of the
\* first false frame after it (the last real frame's when the run reaches the
\* end); it returns none when no flag is true, and modifies no FramePoint.
C12_OneIntervalPerRun ==
    [][(phase = "fpir" /\ phase' = "iir") =>
          /\ framePoints' = framePoints
          /\ Len(sweep'[1]) = Len(intervals')
          /\ \A c \in SubtitleType : MatchesRuns(framePoints, sweep'[1], c)]_vars

\* Built from frames in which one channel has a run of several frames closed
\* by a false frame and a later run reaching the end, and another channel has
\* no flag set.
C12_Witness ==
    /\ Built
    /\ \E c \in SubtitleType :
          /\ Flag(LastFrame, c)
          /\ \E run \in Runs(framePoints, c) :
                /\ run[1] < run[2]
                /\ run[2] < Len(framePoints)
                /\ framePoints[run[1]].timestamp < RunEnd(framePoints, run)
          /\ Len(OfChannel(Pre, c)) >= 2
    /\ \E c \in SubtitleType :
          /\ Runs(framePoints, c) = {}
          /\ OfChannel(Pre, c) = <<>>

====
